---- MODULE Spec2Model ----
(***************************************************************************)
(* A model of cmake_swig_init.py: the CMakeGenerator class (construction   *)
(* and generate()) and the command-line entry point, over a small model of *)
(* the file system, of pathlib paths and of the Python values the          *)
(* generator is handed.                                                    *)
(***************************************************************************)
EXTENDS Integers, Sequences, FiniteSets, TLC

VARIABLES
    pc,        \* position of the program: "start", "ctor_raised", "idle",
               \* or the step of generate() that runs next
    fs,        \* the file system: [dirs, files]
    fs0,       \* the file system before the constructor was called
    cfg,       \* the fields of the CMakeGenerator object
    lists,     \* the heap of Python list objects: reference -> items
    lists0,    \* the heap as the constructor left it
    arg,       \* the value the caller passed as `include`
    args,      \* the argparse namespace (NoArgs when the class is used directly)
    error,     \* the exception that ended the last call ("" when it returned)
    runs,      \* number of generate() calls started
    ended,     \* outcome of every finished generate() call, in order
    snaps,     \* fs.files as each finished generate() call left them
    last,      \* the step of generate() that ran last ("" before the first)
    written,   \* the files written by the current generate() call, in order
    fetches,   \* number of urlopen() calls made
    network    \* whether the upstream URL can be fetched

vars == <<pc, fs, fs0, cfg, lists, lists0, arg, args, error, runs, ended,
          snaps, last, written, fetches, network>>

\* Bound: how many times generate() is called on one generator.
MaxRuns == 2

(***************************************************************************)
(* Strings                                                                 *)
(***************************************************************************)

\* os.linesep on the platform the tool runs on.
Linesep == "\n"

\* sub in s, for two str values.
Contains(s, sub) ==
    \E i \in 1..(Len(s) - Len(sub) + 1) : SubSeq(s, i, i + Len(sub) - 1) = sub

StartsWith(s, pre) == Len(s) >= Len(pre) /\ SubSeq(s, 1, Len(pre)) = pre

\* sep.join(items)
RECURSIVE StrJoin(_, _)
StrJoin(items, sep) ==
    IF items = <<>> THEN ""
    ELSE IF Len(items) = 1 THEN items[1]
    ELSE items[1] \o sep \o StrJoin(Tail(items), sep)

\* s.split(sep) for a one-character sep: the pieces between the separators.
StrSplit(s, sep) ==
    LET at     == {i \in 1..Len(s) : SubSeq(s, i, i) = sep}
        n      == Cardinality(at)
        \* the position of the k-th separator; 0 and Len(s) + 1 bound the text
        pos(k) == IF k = 0 THEN 0
                  ELSE IF k = n + 1 THEN Len(s) + 1
                  ELSE CHOOSE i \in at : Cardinality({j \in at : j < i}) = k - 1
    IN  [k \in 1..(n + 1) |-> SubSeq(s, pos(k - 1) + 1, pos(k) - 1)]

(***************************************************************************)
(* pathlib.PurePosixPath: an anchor ("" for a relative path) and the parts *)
(* after it.  Nothing is resolved lexically: ".." stays a part.            *)
(***************************************************************************)

RECURSIVE DropEmptyAndDot(_)
DropEmptyAndDot(parts) ==
    IF parts = <<>> THEN <<>>
    ELSE IF Head(parts) \in {"", "."} THEN DropEmptyAndDot(Tail(parts))
    ELSE <<Head(parts)>> \o DropEmptyAndDot(Tail(parts))

\* Path(s)
ParsePath(s) ==
    [anchor |-> IF StartsWith(s, "/")
                THEN (IF StartsWith(s, "//") /\ ~StartsWith(s, "///")
                      THEN "//" ELSE "/")
                ELSE "",
     parts  |-> DropEmptyAndDot(StrSplit(s, "/"))]

\* str(p)
PathStr(p) ==
    IF p.parts = <<>> THEN (IF p.anchor = "" THEN "." ELSE p.anchor)
    ELSE p.anchor \o StrJoin(p.parts, "/")

\* p.joinpath(q): an anchored q replaces p.
JoinPath(p, q) ==
    IF q.anchor # "" THEN q
    ELSE [anchor |-> p.anchor, parts |-> p.parts \o q.parts]

\* p.parent
Parent(p) ==
    IF p.parts = <<>> THEN p
    ELSE [anchor |-> p.anchor, parts |-> SubSeq(p.parts, 1, Len(p.parts) - 1)]

IsPrefix(a, b) == Len(a) <= Len(b) /\ SubSeq(b, 1, Len(a)) = a

\* p.relative_to(base): purely lexical; ValueError unless base is a prefix.
RelativeTo(p, base) ==
    IF p.anchor = base.anchor /\ IsPrefix(base.parts, p.parts)
    THEN [err |-> "",
          path |-> [anchor |-> "",
                    parts |-> SubSeq(p.parts, Len(base.parts) + 1, Len(p.parts))]]
    ELSE [err |-> "ValueError", path |-> p]

(***************************************************************************)
(* The file system: fs.dirs is the set of directories and fs.files maps    *)
(* each regular file to its text.  A node is the sequence of names from    *)
(* the root; there are no symbolic links.                                  *)
(***************************************************************************)

\* The working directory of the process.
Cwd == <<"w">>

IsDir(f, node) == node \in f.dirs
IsFile(f, node) == node \in DOMAIN f.files

\* Path resolution as the kernel does it: every component but the last must
\* be a directory; ".." steps to the parent (the root is its own parent).
RECURSIVE Walk(_, _, _)
Walk(f, node, parts) ==
    IF parts = <<>>
    THEN [st   |-> IF IsDir(f, node) THEN "dir"
                   ELSE IF IsFile(f, node) THEN "file" ELSE "ENOENT",
          node |-> node]
    ELSE IF IsFile(f, node) THEN [st |-> "ENOTDIR", node |-> node]
    ELSE IF ~IsDir(f, node) THEN [st |-> "ENOENT", node |-> node]
    ELSE IF Head(parts) = ".."
         THEN Walk(f, IF node = <<>> THEN node
                      ELSE SubSeq(node, 1, Len(node) - 1), Tail(parts))
         ELSE Walk(f, node \o <<Head(parts)>>, Tail(parts))

Lookup(f, p) == Walk(f, IF p.anchor = "" THEN Cwd ELSE <<>>, p.parts)

\* p.exists(): stat() failing with ENOENT or ENOTDIR is "does not exist".
PathExists(f, p) == Lookup(f, p).st \in {"dir", "file"}

\* p.is_dir()
PathIsDir(f, p) == Lookup(f, p).st = "dir"

\* Where a new entry named by p would be made: the lookup of p's directory.
\* err is "" when the entry can be created at node.
NewEntry(f, p) ==
    LET dir == Lookup(f, Parent(p)) IN
    IF dir.st = "ENOENT" THEN [err |-> "FileNotFoundError", node |-> dir.node]
    ELSE IF dir.st # "dir" THEN [err |-> "NotADirectoryError", node |-> dir.node]
    ELSE IF p.parts = <<>> \/ p.parts[Len(p.parts)] = ".."
         THEN [err |-> "FileExistsError", node |-> dir.node]
    ELSE [err |-> "", node |-> dir.node \o <<p.parts[Len(p.parts)]>>]

\* os.mkdir(p)
OsMkdir(f, p) ==
    LET r == Lookup(f, p)
        n == NewEntry(f, p)
    IN  IF r.st \in {"dir", "file"} THEN [err |-> "FileExistsError", fs |-> f]
        ELSE IF r.st = "ENOTDIR" THEN [err |-> "NotADirectoryError", fs |-> f]
        ELSE IF n.err # "" THEN [err |-> n.err, fs |-> f]
        ELSE [err |-> "",
              fs  |-> [dirs |-> f.dirs \cup {n.node}, files |-> f.files]]

\* Path.mkdir(parents=parents, exist_ok=exist_ok)
RECURSIVE PathMkdir(_, _, _, _)
PathMkdir(f, p, parents, exist_ok) ==
    LET r == OsMkdir(f, p) IN
    IF r.err = "" THEN r
    ELSE IF r.err = "FileNotFoundError"
         THEN IF ~parents \/ Parent(p) = p THEN r
              ELSE CHOOSE res \in
                       { IF up.err # "" THEN up
                         ELSE PathMkdir(up.fs, p, FALSE, exist_ok) :
                           up \in {PathMkdir(f, Parent(p), TRUE, TRUE)} } : TRUE
    ELSE IF ~exist_ok \/ ~PathIsDir(f, p) THEN r
    ELSE [err |-> "", fs |-> f]

\* with open(p, "w") as fileobj: fileobj.write(text)
WriteFile(f, p, text) ==
    LET r == Lookup(f, p)
        n == NewEntry(f, p)
        put(node) == [dirs  |-> f.dirs,
                      files |-> [x \in DOMAIN f.files \cup {node} |->
                                    IF x = node THEN text ELSE f.files[x]]]
    IN  IF r.st = "dir" THEN [err |-> "IsADirectoryError", fs |-> f]
        ELSE IF r.st = "file" THEN [err |-> "", fs |-> put(r.node)]
        ELSE IF r.st = "ENOTDIR" THEN [err |-> "NotADirectoryError", fs |-> f]
        ELSE IF n.err = "FileExistsError"
             THEN [err |-> "IsADirectoryError", fs |-> f]
        ELSE IF n.err # "" THEN [err |-> n.err, fs |-> f]
        ELSE [err |-> "", fs |-> put(n.node)]

(***************************************************************************)
(* Python values.  A list is a mutable object: a value of type list is a   *)
(* reference into the heap `lists`, so two names for one list see each     *)
(* other's appends.                                                        *)
(***************************************************************************)

PyNone == [t |-> "None"]
PyStr(s) == [t |-> "str", s |-> s]
PyInt(n) == [t |-> "int", n |-> n]
PyPath(p) == [t |-> "Path", p |-> p]
PyTuple(items) == [t |-> "tuple", items |-> items]
PyListRef(ref) == [t |-> "list", ref |-> ref]

\* A list display [a, b, ...] not yet evaluated: evaluating it allocates.
ListDisplay(items) == [t |-> "display", items |-> items]

\* Evaluate an argument expression: a list display becomes a new list object.
Alloc(heap, v) ==
    IF v.t = "display"
    THEN [heap |-> Append(heap, v.items), val |-> PyListRef(Len(heap) + 1)]
    ELSE [heap |-> heap, val |-> v]

\* "numpy" in p: defined for a str; an int or a Path is not a container.
InValue(sub, v) ==
    IF v.t = "str" THEN [err |-> "", val |-> Contains(v.s, sub)]
    ELSE [err |-> "TypeError", val |-> FALSE]

(***************************************************************************)
(* CMakeGenerator.__init__                                                 *)
(***************************************************************************)

NoCfg == [none |-> TRUE]

\* `if not p.exists(): p.mkdir(parents=True[, exist_ok=...])`
EnsureDir(f, p, exist_ok) ==
    IF PathExists(f, p) THEN [err |-> "", fs |-> f]
    ELSE PathMkdir(f, p, TRUE, exist_ok)

\* The normalisation of `include`: None, a str and a Path become a new
\* list; a list is kept as the object it is; anything else is a TypeError.
NormalizeInclude(heap, include) ==
    IF include.t = "None"
    THEN [err |-> "", heap |-> Append(heap, <<>>), ref |-> Len(heap) + 1]
    ELSE IF include.t = "str"
    THEN [err |-> "", heap |-> Append(heap, <<include>>), ref |-> Len(heap) + 1]
    ELSE IF include.t = "Path"
    THEN [err |-> "", heap |-> Append(heap, <<PyStr(PathStr(include.p))>>),
          ref |-> Len(heap) + 1]
    ELSE IF include.t = "list"
    THEN [err |-> "", heap |-> heap, ref |-> include.ref]
    ELSE [err |-> "TypeError", heap |-> heap, ref |-> 0]

\* The constructor: the three directories first, then `include`.
__init__(f, heap, kw) ==
    LET top   == ParsePath(kw.top_level_dir)
        src   == JoinPath(top, ParsePath(kw.src_dir))
        swig  == JoinPath(src, ParsePath("swig"))
        \* each directory is made on the file system the one before left;
        \* the first failure ends the constructor
        r3    == CHOOSE r \in
                   { IF r2.err # "" THEN r2 ELSE EnsureDir(r2.fs, swig, TRUE) :
                       r2 \in { IF r1.err # "" THEN r1
                                ELSE EnsureDir(r1.fs, src, FALSE) :
                                  r1 \in {EnsureDir(f, top, FALSE)} } } : TRUE
        inc   == NormalizeInclude(heap, kw.include)
        raise(e, g) == [err |-> e, fs |-> g, heap |-> heap, cfg |-> NoCfg]
    IN  IF r3.err # "" THEN raise(r3.err, r3.fs)
        ELSE IF inc.err # "" THEN raise(inc.err, r3.fs)
        ELSE [err  |-> "",
              fs   |-> r3.fs,
              heap |-> inc.heap,
              cfg  |-> [project_name            |-> kw.project_name,
                        project_version         |-> kw.project_version,
                        generate_interface_file |-> kw.generate_interface_file,
                        top_level_dir           |-> top,
                        src_dir                 |-> src,
                        swig_dir                |-> swig,
                        use_numpy               |-> kw.use_numpy,
                        include                 |-> inc.ref,
                        cxx_std                 |-> kw.cxx_std,
                        cxx_flags               |-> IF kw.cxx_flags.t = "None"
                                                    THEN "" ELSE kw.cxx_flags.s,
                        min_cmake_version       |-> kw.cmake_version]]

(***************************************************************************)
(* The texts generate() writes                                             *)
(***************************************************************************)

\* The text of CMakeLists.txt; relative_to() raises before anything is opened.
TopLevelText(c) ==
    LET source_subdir == RelativeTo(c.src_dir, c.top_level_dir)
        text == << "cmake_minimum_required(VERSION " \o c.min_cmake_version \o ")",
                   "project(" \o c.project_name \o ")",
                   "",
                   "set(CMAKE_CXX_STANDARD " \o c.cxx_std \o ")",
                   "set(CMAKE_CXX_FLAGS \"${CMAKE_CXX_FLAGS}" \o c.cxx_flags \o "\")",
                   "set(CMAKE_POSITION_INDEPENDENT_CODE ON)",
                   "" \o "add_subdirectory(" \o PathStr(source_subdir.path) \o ")" >>
    IN  [err |-> source_subdir.err, text |-> StrJoin(text, Linesep)]

\* The lines added to the interface file when numpy is used.
NumpyText(c) ==
    << "%{",
       "#define SWIG_FILE_WITH_INIT",
       "#include \"" \o c.project_name \o ".h\"",
       "%}",
       "%include \"numpy.i\"",
       "%init %{",
       "import_array();",
       "%}",
       "" >>

\* The interface lines with the header path used as it is, no ".h" added.
InterfaceLines_single_extension(c) ==
    LET path_to_header == JoinPath(c.src_dir, ParsePath(c.project_name \o ".h"))
    IN  << "%module " \o c.project_name, "" >>
        \o (IF c.use_numpy THEN NumpyText(c) ELSE <<>>)
        \o << "%include \"" \o PathStr(path_to_header) \o "\"" >>

\* The lines of the interface file, before they are joined.
InterfaceLines(c) ==
    LET path_to_header == JoinPath(c.src_dir, ParsePath(c.project_name \o ".h"))
    IN  << "%module " \o c.project_name, "" >>
        \o (IF c.use_numpy THEN NumpyText(c) ELSE <<>>)
        \o << "%include \"" \o PathStr(path_to_header) \o ".h\"" >>

InterfaceText(c) == StrJoin(InterfaceLines(c), Linesep)

\* Where the three files go.
TopLevelFile(c) == JoinPath(c.top_level_dir, ParsePath("CMakeLists.txt"))
InterfaceFile(c) == JoinPath(c.swig_dir, ParsePath(c.project_name \o ".i"))
NumpyFile(c) == JoinPath(c.swig_dir, ParsePath("numpy.i"))

(***************************************************************************)
(* numpy support                                                           *)
(***************************************************************************)

\* np.__file__ of an installed numpy; `import numpy` succeeds iff it is there.
NumpyInitPy == "/sp/numpy/__init__.py"

\* What the upstream URL serves.
UpstreamNumpyI == "/* numpy.i */" \o Linesep \o "%fragment(\"NumPy_Macros\")"

\* The loop returning after its first entry, whatever that entry holds.
_numpy_in_include_first_entry_only(include) ==
    IF include = <<>> THEN [err |-> "", val |-> FALSE]
    ELSE InValue("numpy", Head(include))

\* The loop over the include list: the first entry that is no str raises.
RECURSIVE _numpy_in_include(_)
_numpy_in_include(include) ==
    IF include = <<>> THEN [err |-> "", val |-> FALSE]
    ELSE LET r == InValue("numpy", Head(include)) IN
         IF r.err # "" \/ r.val THEN r
         ELSE _numpy_in_include(Tail(include))

\* _get_numpy_include without its check of numpy/arrayobject.h.
_get_numpy_include_no_header_check(f) ==
    LET path         == Parent(ParsePath(NumpyInitPy))
        include_path == JoinPath(path, ParsePath("core/include"))
    IN  IF Lookup(f, ParsePath(NumpyInitPy)).st # "file"
        THEN [err |-> "Exception", path |-> include_path]
        ELSE IF ~PathExists(f, include_path)
        THEN [err |-> "Exception", path |-> include_path]
        ELSE [err |-> "", path |-> include_path]

_get_numpy_include(f) ==
    LET path             == Parent(ParsePath(NumpyInitPy))
        include_path     == JoinPath(path, ParsePath("core/include"))
        arrayobject_path == JoinPath(include_path, ParsePath("numpy/arrayobject.h"))
    IN  IF Lookup(f, ParsePath(NumpyInitPy)).st # "file"
        THEN [err |-> "Exception", path |-> include_path]
        ELSE IF ~PathExists(f, include_path)
        THEN [err |-> "Exception", path |-> include_path]
        ELSE IF ~PathExists(f, arrayobject_path)
        THEN [err |-> "Exception", path |-> include_path]
        ELSE [err |-> "", path |-> include_path]

\* The static method takes one positional parameter, out_dir.  A call that
\* does not supply exactly one argument fails when the arguments are bound,
\* before the body runs; the body opens the URL whatever out_dir is.
_get_numpy_i(actuals, net) ==
    IF Len(actuals) # 1
    THEN [err |-> "TypeError", fetched |-> 0, text |-> ""]
    ELSE IF net THEN [err |-> "", fetched |-> 1, text |-> UpstreamNumpyI]
    ELSE [err |-> "URLError", fetched |-> 1, text |-> ""]

\* The arguments the one caller passes to _get_numpy_i: none.
GetNumpyIActuals == <<>>

\* The outcome of _generate_numpy on file system f, heap, config c.
GenerateNumpy(f, heap, c, net) ==
    LET has     == _numpy_in_include(heap[c.include])
        found   == _get_numpy_include(f)
        heap2   == IF ~has.val
                   THEN [heap EXCEPT ![c.include] = Append(@, PyPath(found.path))]
                   ELSE heap
        got     == _get_numpy_i(GetNumpyIActuals, net)
        out     == WriteFile(f, NumpyFile(c), got.text)
        raise(e, h, n) == [err |-> e, fs |-> f, heap |-> h, fetched |-> n,
                           wrote |-> <<>>]
    IN  IF has.err # "" THEN raise(has.err, heap, 0)
        ELSE IF ~has.val /\ found.err # "" THEN raise("RuntimeError", heap, 0)
        ELSE IF got.err # "" THEN raise(got.err, heap2, got.fetched)
        ELSE IF out.err # "" THEN raise(out.err, heap2, got.fetched)
        ELSE [err |-> "", fs |-> out.fs, heap |-> heap2, fetched |-> got.fetched,
              wrote |-> <<Lookup(out.fs, NumpyFile(c)).node>>]

(***************************************************************************)
(* The command line                                                        *)
(***************************************************************************)

NoArgs == [none |-> TRUE]

\* The namespace before any token is read: the defaults of the parser.
ArgDefaults ==
    [err |-> "", have_project |-> FALSE, project |-> "",
     version |-> "0.1", dont_generate_interface |-> FALSE, use_numpy |-> FALSE,
     top_level_dir |-> ".", src |-> "src", include |-> PyNone,
     cxx |-> "17", cxx_flags |-> PyNone, cmake_version |-> "3.18"]

\* The destination of each option that takes a value.
StoreDest(tok) ==
    CASE tok \in {"-v", "--version"}       -> "version"
      [] tok \in {"-d", "--top-level-dir"} -> "top_level_dir"
      [] tok \in {"-s", "--src"}           -> "src"
      [] tok = "--cxx"                     -> "cxx"
      [] tok = "--cmake-version"           -> "cmake_version"
      [] OTHER                             -> ""

\* parser.parse_args(): the tokens left to right.
RECURSIVE parse_args(_, _)
parse_args(argv, ns) ==
    IF argv = <<>>
    THEN (IF ns.have_project THEN ns ELSE [ns EXCEPT !.err = "SystemExit"])
    ELSE LET tok  == Head(argv)
             rest == Tail(argv)
         IN  IF StoreDest(tok) # ""
             THEN IF rest = <<>> THEN [ns EXCEPT !.err = "SystemExit"]
                  ELSE parse_args(Tail(rest), [ns EXCEPT ![StoreDest(tok)] = Head(rest)])
             ELSE IF tok = "--cxx_flags"
             THEN IF rest = <<>> THEN [ns EXCEPT !.err = "SystemExit"]
                  ELSE parse_args(Tail(rest), [ns EXCEPT !.cxx_flags = PyStr(Head(rest))])
             ELSE IF tok \in {"-I", "--include"}
             THEN IF rest = <<>> THEN [ns EXCEPT !.err = "SystemExit"]
                  ELSE parse_args(Tail(rest),
                         [ns EXCEPT !.include =
                            ListDisplay((IF @.t = "None" THEN <<>> ELSE @.items)
                                        \o <<PyStr(Head(rest))>>)])
             ELSE IF tok \in {"-n", "--use-numpy"}
             THEN parse_args(rest, [ns EXCEPT !.use_numpy = TRUE])
             ELSE IF tok = "--dont-generate-interface"
             THEN parse_args(rest, [ns EXCEPT !.dont_generate_interface = TRUE])
             ELSE IF StartsWith(tok, "-") \/ ns.have_project
             THEN [ns EXCEPT !.err = "SystemExit"]
             ELSE parse_args(rest, [ns EXCEPT !.have_project = TRUE, !.project = tok])

\* The keyword arguments the entry point constructs the generator with;
\* what it does not pass takes the default of the constructor's signature.
MainKwargs(ns) ==
    [project_name            |-> ns.project,
     project_version         |-> ns.version,
     generate_interface_file |-> ~ns.dont_generate_interface,
     top_level_dir           |-> ".",
     src_dir                 |-> ns.src,
     use_numpy               |-> ns.use_numpy,
     include                 |-> ns.include,
     cxx_std                 |-> ns.cxx,
     cxx_flags               |-> ns.cxx_flags,
     cmake_version           |-> ns.cmake_version]

(***************************************************************************)
(* The inputs and the environments explored                                *)
(***************************************************************************)

ProjectNames == {"demo", "p"}
TopLevelDirs == {".", "out"}
SrcDirs == {"src", "../x", "/abs"}
IncludeValues ==
    { PyNone,
      PyStr("inc"),
      PyStr("/opt/numpy_include"),
      PyPath(ParsePath("./inc/")),
      ListDisplay(<<>>),
      ListDisplay(<<PyStr("inc")>>),
      ListDisplay(<<PyStr("inc"), PyStr("a"), PyStr("inc")>>),
      ListDisplay(<<PyStr("a"), PyStr("/opt/numpy_include")>>),
      ListDisplay(<<PyInt(5)>>),
      PyTuple(<<PyStr("inc")>>),
      PyInt(5) }

Kwargs ==
    [project_name            : ProjectNames,
     project_version         : {"0.1"},
     generate_interface_file : BOOLEAN,
     top_level_dir           : TopLevelDirs,
     src_dir                 : SrcDirs,
     use_numpy               : BOOLEAN,
     include                 : IncludeValues,
     cxx_std                 : {"17"},
     cxx_flags               : {PyNone},
     cmake_version           : {"3.18"}]

Argvs ==
    { <<"demo">>,
      <<"-d", "out", "demo">>,
      <<"demo", "--top-level-dir", "out", "-s", "lib">>,
      <<"demo", "-n", "-I", "/opt/numpy_include">>,
      <<"--use-numpy", "--dont-generate-interface", "p">>,
      <<"-I", "a", "--include", "b", "p", "--cxx", "20", "--cxx_flags", " -O2",
        "--cmake-version", "3.20", "-v", "1.0">>,
      <<"-n">> }

\* What may be on disk before the tool runs: nothing, the output of an
\* earlier run, or a regular file where the swig directory would go ...
ProjectTrees ==
    { [dirs |-> {}, files |-> <<>>],
      [dirs |-> {<<"w", "src">>, <<"w", "src", "swig">>},
       files |-> (<<"w", "CMakeLists.txt">> :> "stale")
                 @@ (<<"w", "src", "swig", "demo.i">> :> "stale")],
      [dirs |-> {<<"w", "src">>},
       files |-> (<<"w", "src", "swig">> :> "")] }

\* ... and numpy not installed, installed without its include directory,
\* without the header, or complete.
NumpyTrees ==
    LET pkg == {<<"sp">>, <<"sp", "numpy">>}
        inc == {<<"sp", "numpy", "core">>, <<"sp", "numpy", "core", "include">>}
        ini == (<<"sp", "numpy", "__init__.py">> :> "")
    IN  { [dirs |-> {}, files |-> <<>>],
          [dirs |-> pkg, files |-> ini],
          [dirs |-> pkg \cup inc, files |-> ini],
          [dirs |-> pkg \cup inc
                    \cup {<<"sp", "numpy", "core", "include", "numpy">>},
           files |-> ini @@ (<<"sp", "numpy", "core", "include", "numpy",
                               "arrayobject.h">> :> "")] }

InitialFS ==
    { [dirs |-> {<<>>, Cwd} \cup a.dirs \cup b.dirs, files |-> a.files @@ b.files] :
        a \in ProjectTrees, b \in NumpyTrees }

(***************************************************************************)
(* The state machine                                                       *)
(***************************************************************************)

Init ==
    /\ pc = "start"
    /\ fs \in InitialFS
    /\ fs0 = fs
    /\ cfg = NoCfg
    /\ lists = <<>>
    /\ lists0 = <<>>
    /\ arg = PyNone
    /\ args = NoArgs
    /\ error = ""
    /\ runs = 0
    /\ ended = <<>>
    /\ snaps = <<>>
    /\ last = ""
    /\ written = <<>>
    /\ fetches = 0
    /\ network \in BOOLEAN

\* The constructor called with keyword arguments kw, its `include` value
\* evaluated first.
Construct(kw) ==
    \E a \in {Alloc(<<>>, kw.include)} :
    \E r \in {__init__(fs, a.heap, [kw EXCEPT !.include = a.val])} :
        /\ pc' = IF r.err = "" THEN "idle" ELSE "ctor_raised"
        /\ fs' = r.fs
        /\ cfg' = r.cfg
        /\ lists' = r.heap
        /\ lists0' = r.heap
        /\ arg' = a.val
        /\ error' = r.err

\* A caller constructs a CMakeGenerator directly.
New ==
    /\ pc = "start"
    /\ \E kw \in Kwargs : Construct(kw)
    /\ UNCHANGED <<fs0, args, runs, ended, snaps, last, written, fetches,
                   network>>

\* The script is run: the arguments are parsed and the generator is
\* constructed; generate() follows.
Main ==
    /\ pc = "start"
    /\ \E argv \in Argvs :
         \E ns \in {parse_args(argv, ArgDefaults)} :
         /\ args' = ns
         /\ IF ns.err # ""
            THEN /\ pc' = "exited"
                 /\ error' = ns.err
                 /\ UNCHANGED <<fs, cfg, lists, lists0, arg>>
            ELSE Construct(MainKwargs(ns))
    /\ UNCHANGED <<fs0, runs, ended, snaps, last, written, fetches, network>>

\* generate() is entered.  The script calls it once.
generate ==
    /\ pc = "idle"
    /\ runs < MaxRuns
    /\ args = NoArgs \/ runs = 0
    /\ pc' = "top"
    /\ runs' = runs + 1
    /\ written' = <<>>
    /\ error' = ""
    /\ UNCHANGED <<fs, fs0, cfg, lists, lists0, arg, args, ended, snaps, last,
                   fetches, network>>

\* generate() calling _generate_interface whatever the flag says.
GenerateNext_interface_unconditional(c, done) ==
    CASE done = "top"       -> "src"
      [] done = "src"       -> "swig"
      [] done = "swig"      -> "interface"
      [] done = "interface" -> IF c.use_numpy THEN "numpy" ELSE "return"
      [] done = "numpy"     -> "return"

\* The statement of generate() that follows the step `done`.
GenerateNext(c, done) ==
    CASE done = "top"       -> "src"
      [] done = "src"       -> "swig"
      [] done = "swig"      -> IF c.generate_interface_file THEN "interface"
                               ELSE IF c.use_numpy THEN "numpy" ELSE "return"
      [] done = "interface" -> IF c.use_numpy THEN "numpy" ELSE "return"
      [] done = "numpy"     -> "return"

\* A step of generate() ends: with an exception, which ends generate(), or
\* normally, and generate() goes on or returns.
StepEnds(done, err, f, heap, wrote, fetched) ==
    LET next == GenerateNext(cfg, done) IN
    /\ fs' = f
    /\ lists' = heap
    /\ last' = done
    /\ written' = written \o wrote
    /\ fetches' = fetches + fetched
    /\ IF err # "" \/ next = "return"
       THEN /\ pc' = "idle"
            /\ error' = err
            /\ ended' = Append(ended, err)
            /\ snaps' = Append(snaps, f.files)
       ELSE /\ pc' = next
            /\ UNCHANGED <<error, ended, snaps>>
    /\ UNCHANGED <<fs0, cfg, lists0, arg, args, runs, network>>

_generate_top_level_cmakelists ==
    /\ pc = "top"
    /\ \E t \in {TopLevelText(cfg)} :
       \E out \in {WriteFile(fs, TopLevelFile(cfg), t.text)} :
           IF t.err # "" THEN StepEnds("top", t.err, fs, lists, <<>>, 0)
           ELSE IF out.err # "" THEN StepEnds("top", out.err, fs, lists, <<>>, 0)
           ELSE StepEnds("top", "", out.fs, lists,
                         <<Lookup(out.fs, TopLevelFile(cfg)).node>>, 0)

_generate_src_cmakelists ==
    /\ pc = "src"
    /\ StepEnds("src", "", fs, lists, <<>>, 0)

_generate_swig_cmakelists ==
    /\ pc = "swig"
    /\ StepEnds("swig", "", fs, lists, <<>>, 0)

_generate_interface ==
    /\ pc = "interface"
    /\ \E out \in {WriteFile(fs, InterfaceFile(cfg), InterfaceText(cfg))} :
           IF out.err # "" THEN StepEnds("interface", out.err, fs, lists, <<>>, 0)
           ELSE StepEnds("interface", "", out.fs, lists,
                         <<Lookup(out.fs, InterfaceFile(cfg)).node>>, 0)

_generate_numpy ==
    /\ pc = "numpy"
    /\ \E r \in {GenerateNumpy(fs, lists, cfg, network)} :
           StepEnds("numpy", r.err, r.fs, r.heap, r.wrote, r.fetched)

Next ==
    \/ New
    \/ Main
    \/ generate
    \/ _generate_top_level_cmakelists
    \/ _generate_src_cmakelists
    \/ _generate_swig_cmakelists
    \/ _generate_interface
    \/ _generate_numpy

Spec == Init /\ [][Next]_vars

(***************************************************************************)
(* Vocabulary of the properties                                            *)
(***************************************************************************)

\* A generator object exists.
Constructed == pc \notin {"start", "ctor_raised", "exited"}

\* generate() has been called and the last call has ended.
RunEnded == pc = "idle" /\ runs >= 1

\* The last generate() call got as far as _generate_numpy and ended there.
NumpyStepRan == RunEnded /\ last = "numpy"

AllStr(items) == \A i \in 1..Len(items) : items[i].t = "str"

\* Some entry of a list of str contains "numpy".
NumpyAmong(items) ==
    \E i \in 1..Len(items) : items[i].t = "str" /\ Contains(items[i].s, "numpy")

\* numpy as the environment has it: the package, its core/include
\* directory and the header numpy/arrayobject.h in it.
NumpyPackageNode == <<"sp", "numpy">>
NumpyComplete(f) ==
    /\ IsFile(f, NumpyPackageNode \o <<"__init__.py">>)
    /\ IsDir(f, NumpyPackageNode \o <<"core", "include">>)
    /\ IsFile(f, NumpyPackageNode \o <<"core", "include", "numpy", "arrayobject.h">>)

\* The regular file p names in f, as [is |-> whether there is one, text].
FileAt(f, p) ==
    LET r == Lookup(f, p) IN
    IF r.st = "file" THEN [is |-> TRUE, text |-> f.files[r.node]]
    ELSE [is |-> FALSE, text |-> ""]

\* The lines of a text.
Lines(text) == StrSplit(text, Linesep)

(***************************************************************************)
(* The properties                                                          *)
(***************************************************************************)

\* C1: with useNumpy, an include entry containing "numpy" and the network
\* reachable, _generate_numpy skips the local resolution, fetches the
\* upstream numpy.i and leaves swigDir/numpy.i holding exactly the fetched
\* text.  (The statement as claimed; the code does not meet it.)
C1_FetchedTextWritten ==
    (NumpyStepRan /\ cfg.use_numpy /\ AllStr(lists0[cfg.include])
       /\ NumpyAmong(lists0[cfg.include]) /\ network)
    => /\ error = ""
       /\ fetches >= 1
       /\ FileAt(fs, NumpyFile(cfg)) = [is |-> TRUE, text |-> UpstreamNumpyI]

\* C2: with useNumpy, no include entry containing "numpy" and numpy absent
\* or incomplete, generate() ends with the wrapped RuntimeError, no fetch
\* has been attempted and swigDir/numpy.i has not been created.
C2_ResolutionFailureStopsBeforeFetch ==
    (NumpyStepRan /\ cfg.use_numpy /\ AllStr(lists0[cfg.include])
       /\ ~NumpyAmong(lists0[cfg.include]) /\ ~NumpyComplete(fs))
    => /\ error = "RuntimeError"
       /\ fetches = 0
       /\ FileAt(fs, NumpyFile(cfg)) = FileAt(fs0, NumpyFile(cfg))
       /\ ~FileAt(fs, NumpyFile(cfg)).is

C2_Witness ==
    /\ NumpyStepRan /\ cfg.use_numpy /\ AllStr(lists0[cfg.include])
    /\ ~NumpyAmong(lists0[cfg.include]) /\ ~NumpyComplete(fs)
    /\ IsDir(fs, NumpyPackageNode \o <<"core", "include">>)
    /\ error = "RuntimeError"

\* C3: a constructor call that fails on the shape of `include` (a number)
\* has produced nothing on disk: the file system is as it was before the
\* call.  (The statement as claimed; the code does not meet it.)
C3_RejectedIncludeLeavesNoOutput ==
    (pc = "ctor_raised" /\ error = "TypeError" /\ arg.t = "int") => fs = fs0

\* The items of a value that is a sequence (a list or a tuple).
ItemsOf(v) == IF v.t = "list" THEN lists0[v.ref] ELSE v.items

\* The shapes the normalisation is said to accept: nothing, one str, one
\* Path, or a sequence (a list) of str.
SupportedShape(v) ==
    \/ v.t \in {"None", "str", "Path"}
    \/ v.t = "list" /\ AllStr(ItemsOf(v))

\* The internal sequence each supported shape is said to yield.
NormalForm(v) ==
    CASE v.t = "None" -> <<>>
      [] v.t = "str"  -> <<v>>
      [] v.t = "Path" -> <<PyStr(PathStr(v.p))>>
      [] OTHER        -> ItemsOf(v)

\* C4: the constructor, when it reaches the check of `include`, accepts
\* exactly the supported shapes, each with its normal form, and rejects
\* every other shape with a TypeError.  (The statement as claimed; the code
\* does not meet it.)
C4_NormalizationAcceptsExactlySupportedShapes ==
    (args = NoArgs /\ (Constructed \/ (pc = "ctor_raised" /\ error = "TypeError")))
    => IF SupportedShape(arg)
       THEN Constructed /\ lists0[cfg.include] = NormalForm(arg)
       ELSE pc = "ctor_raised"

\* C5: run from the command line, the generator is constructed with the
\* parsed options: topLevelDir is the value of -d / --top-level-dir and
\* the other options reach their fields.  (The statement as claimed; the
\* code does not meet it.)
C5_OptionsReachConfig ==
    (args # NoArgs /\ Constructed)
    => /\ cfg.top_level_dir = ParsePath(args.top_level_dir)
       /\ cfg.src_dir = JoinPath(ParsePath(args.top_level_dir), ParsePath(args.src))
       /\ cfg.project_name = args.project
       /\ cfg.project_version = args.version
       /\ cfg.use_numpy = args.use_numpy
       /\ cfg.generate_interface_file = ~args.dont_generate_interface
       /\ cfg.cxx_std = args.cxx
       /\ cfg.min_cmake_version = args.cmake_version

\* A configuration and environment with which nothing should go wrong:
\* srcDir lies under topLevelDir, swigDir is a directory, the include paths
\* are strings, and numpy support, when asked for, has an include path or
\* a complete numpy, and the network.
ValidSetup ==
    /\ Constructed
    /\ RelativeTo(cfg.src_dir, cfg.top_level_dir).err = ""
    /\ ".." \notin {cfg.src_dir.parts[i] : i \in 1..Len(cfg.src_dir.parts)}
    /\ PathIsDir(fs, cfg.swig_dir)
    /\ AllStr(lists0[cfg.include])
    /\ cfg.use_numpy => network /\ (NumpyAmong(lists0[cfg.include]) \/ NumpyComplete(fs))

\* C6: with a valid setup, two generate() calls both complete and the
\* second leaves every file as the first left it.  (The statement as
\* claimed; the code does not meet it.)
C6_GenerateIdempotent ==
    (ValidSetup /\ pc = "idle" /\ Len(ended) = 2)
    => /\ ended[1] = "" /\ ended[2] = ""
       /\ snaps[2] = snaps[1]


\* The interface step of the last generate() call has completed.
InterfaceStepDone ==
    /\ Constructed /\ runs >= 1 /\ cfg.generate_interface_file
    /\ \/ pc = "numpy"
       \/ pc = "idle" /\ last = "numpy"
       \/ pc = "idle" /\ last = "interface" /\ error = ""

\* Where file p is in the files the current generate() call has written
\* (0 when it has not written it).
WrittenAt(p) ==
    LET node == Lookup(fs, p).node
        at   == {i \in 1..Len(written) : written[i] = node}
    IN  IF at = {} THEN 0 ELSE CHOOSE i \in at : \A j \in at : i <= j

\* C7: generate() writes swigDir/<projectName>.i iff generateInterfaceFile
\* is true.  When it is false the file is at every step what it was before
\* the generator was constructed; when it is true and the interface step has
\* completed, the file has been written after CMakeLists.txt and its first
\* line is `%module <projectName>`.
C7_InterfaceFileIffRequested ==
    Constructed =>
      /\ ~cfg.generate_interface_file
           => /\ FileAt(fs, InterfaceFile(cfg)) = FileAt(fs0, InterfaceFile(cfg))
              /\ WrittenAt(InterfaceFile(cfg)) = 0
      /\ InterfaceStepDone
           => /\ FileAt(fs, InterfaceFile(cfg)).is
              /\ Lines(FileAt(fs, InterfaceFile(cfg)).text)[1]
                   = "%module " \o cfg.project_name
              /\ WrittenAt(TopLevelFile(cfg)) >= 1
              /\ WrittenAt(InterfaceFile(cfg)) > WrittenAt(TopLevelFile(cfg))

C7_Witness ==
    /\ InterfaceStepDone /\ pc = "idle" /\ error = ""
    /\ FileAt(fs0, InterfaceFile(cfg)) = [is |-> TRUE, text |-> "stale"]
    /\ WrittenAt(InterfaceFile(cfg)) = 2

\* The options of Scenario A: everything but the project name at its default.
DefaultOptions ==
    /\ Constructed
    /\ cfg.top_level_dir = ParsePath(".")
    /\ cfg.src_dir = ParsePath("src")
    /\ cfg.generate_interface_file /\ ~cfg.use_numpy
    /\ cfg.cxx_std = "17" /\ cfg.cxx_flags = "" /\ cfg.min_cmake_version = "3.18"

\* generate() has returned normally.
Generated == RunEnded /\ error = ""

\* C8 as claimed: with default options the interface file is exactly the
\* line `%module P` followed by the line `%include "src/P.h.h"`.
C8_InterfaceExactlyTwoLines ==
    (DefaultOptions /\ Generated)
    => /\ "project(" \o cfg.project_name \o ")"
            \in {Lines(FileAt(fs, TopLevelFile(cfg)).text)[i] :
                   i \in 1..Len(Lines(FileAt(fs, TopLevelFile(cfg)).text))}
       /\ FileAt(fs, ParsePath("src/swig/" \o cfg.project_name \o ".i")).text
            = "%module " \o cfg.project_name \o Linesep
              \o "%include \"src/" \o cfg.project_name \o ".h.h\""

\* C8 as amended: with default options CMakeLists.txt has the line
\* `project(P)` and src/swig/P.i is exactly three lines: `%module P`, an
\* empty line, and last `%include "src/P.h.h"`, with no line end after it.
C8_InterfaceModuleBlankInclude ==
    (DefaultOptions /\ Generated)
    => /\ "project(" \o cfg.project_name \o ")"
            \in {Lines(FileAt(fs, TopLevelFile(cfg)).text)[i] :
                   i \in 1..Len(Lines(FileAt(fs, TopLevelFile(cfg)).text))}
       /\ FileAt(fs, ParsePath("src/swig/" \o cfg.project_name \o ".i")).is
       /\ FileAt(fs, ParsePath("src/swig/" \o cfg.project_name \o ".i")).text
            = "%module " \o cfg.project_name \o Linesep
              \o Linesep
              \o "%include \"src/" \o cfg.project_name \o ".h.h\""

C8_Witness ==
    /\ DefaultOptions /\ Generated /\ cfg.project_name = "demo"
    /\ FileAt(fs, ParsePath("src/swig/demo.i")).is
    /\ FileAt(fs, ParsePath("CMakeLists.txt")).is


\* Directory b lies strictly inside directory a.
Inside(a, b) == IsPrefix(a, b) /\ a # b

\* C9: whenever the generator has written a file, topLevelDir, srcDir and
\* swigDir are directories, srcDir inside topLevelDir and swigDir inside
\* srcDir.  (The statement as claimed; the code does not meet it.)
C9_DirectoriesNested ==
    (Constructed /\ written # <<>>)
    => /\ PathIsDir(fs, cfg.top_level_dir)
       /\ PathIsDir(fs, cfg.src_dir)
       /\ PathIsDir(fs, cfg.swig_dir)
       /\ Inside(Lookup(fs, cfg.top_level_dir).node, Lookup(fs, cfg.src_dir).node)
       /\ Inside(Lookup(fs, cfg.src_dir).node, Lookup(fs, cfg.swig_dir).node)

\* C10 as claimed: the include list the generator holds has, in every state
\* after construction, the elements it had when the constructor returned.
C10_IncludeNeverChanges ==
    Constructed => lists[cfg.include] = lists0[cfg.include]

\* What _generate_numpy appends: the numpy include directory, as a Path.
NumpyIncludeEntry ==
    PyPath([anchor |-> "/", parts |-> NumpyPackageNode \o <<"core", "include">>])

\* The include list only grows, by at most the one numpy entry, and a list
\* the caller passed is the very list the generator holds.
IncludeGrowsByNumpyOnly ==
    Constructed =>
      LET before == lists0[cfg.include]
          now    == lists[cfg.include]
      IN  /\ Len(lists) = Len(lists0)
          /\ \A r \in 1..Len(lists) : r # cfg.include => lists[r] = lists0[r]
          /\ arg.t = "list" => arg.ref = cfg.include
          /\ \/ now = before
             \/ /\ now = Append(before, NumpyIncludeEntry)
                /\ cfg.use_numpy
                /\ AllStr(before) /\ ~NumpyAmong(before)
                /\ NumpyComplete(fs)

\* C10 as amended: no step after construction changes a config field, and
\* the include list changes only by _generate_numpy appending the resolved
\* numpy include directory, once, when useNumpy is set, no entry contains
\* "numpy" and numpy is found; a list passed by the caller is that same
\* list and receives the entry too.
C10_ConfigFixedIncludeGrowsByNumpyOnly ==
    /\ [](IncludeGrowsByNumpyOnly)
    /\ [][Constructed => cfg' = cfg]_vars

C10_Witness ==
    /\ Constructed /\ arg.t = "list"
    /\ lists0[cfg.include] = <<PyStr("inc"), PyStr("a"), PyStr("inc")>>
    /\ lists[arg.ref] = <<PyStr("inc"), PyStr("a"), PyStr("inc"), NumpyIncludeEntry>>
    /\ Len(ended) = 2

====
